---- MODULE Spec2Model ----
(***************************************************************************)
(* Model of the FM demodulator of src/src/lib.rs (struct FmDemod, its      *)
(* constructor `new` and its per-sample transform `feed`).                  *)
(*                                                                         *)
(* Number representation.  The code computes in f32.  The model keeps the  *)
(* parts of IEEE-754 arithmetic that decide the branch of atan2 (the sign  *)
(* bit, including the sign of a zero, and the rules +0 + -0 = +0,          *)
(* x - x = +0, sign(x*y) = sign(x) xor sign(y)) and computes magnitudes    *)
(* exactly, in the ring Z[sqrt 3]: a number is [a, b, neg] and stands for  *)
(* a + b*sqrt(3), `neg` being its sign bit.  Rounding, overflow and        *)
(* underflow of f32 are not modelled.  Samples are taken from the complex  *)
(* numbers of that ring whose direction is a multiple of 15 degrees, a set *)
(* closed under multiplication and conjugation, so that the two-argument   *)
(* arctangent of every product is an exact multiple of pi/12.              *)
(* A sample component [a, b] is read in units of 1/2 (so that the unit     *)
(* vectors at multiples of 30 degrees are samples); a power-of-two unit    *)
(* changes no sign and no angle.                                           *)
(***************************************************************************)
EXTENDS Integers, Sequences, FiniteSets

(***************************************************************************)
(* Bounds of the model.                                                    *)
(***************************************************************************)
\* Deviations and sample rates are drawn from 0..MaxRate.
MaxRate == 6
\* A run makes at most MaxFeeds feed calls.
MaxFeeds == 3
\* Amplitudes are rescaled by the factors 1..MaxScale.
MaxScale == 2
\* The round-trip harness feeds at most MaxLen samples.
MaxLen == 12

(***************************************************************************)
(* f32 values: exact magnitude in Z[sqrt 3] with an IEEE sign bit.         *)
(***************************************************************************)
\* a + b*sqrt(3) < 0
Negative(a, b) ==
  \/ a < 0 /\ b <= 0
  \/ a <= 0 /\ b < 0
  \/ a < 0 /\ b > 0 /\ a * a > 3 * b * b
  \/ a > 0 /\ b < 0 /\ 3 * b * b > a * a

\* The value a + b*sqrt(3); z is the sign bit the result takes if it is zero.
F(a, b, z) ==
  [a |-> a, b |-> b, neg |-> IF a = 0 /\ b = 0 THEN z ELSE Negative(a, b)]

IsZero(x) == x.a = 0 /\ x.b = 0

\* Unary minus flips the sign bit, also of a zero.
fneg(x) == F(-x.a, -x.b, ~x.neg)

\* x * y: the sign of the product is the xor of the signs, also for zeros.
fmul(x, y) ==
  F(x.a * y.a + 3 * x.b * y.b, x.a * y.b + x.b * y.a, x.neg # y.neg)

\* x + y: an exact zero sum is -0 only when both operands are negative
\* (-0 + -0); x + (-x) and +0 + -0 are +0 under round-to-nearest.
fadd(x, y) == F(x.a + y.a, x.b + y.b, x.neg /\ y.neg)

fsub(x, y) == fadd(x, fneg(y))

fabs(x) == F(IF x.neg THEN -x.a ELSE x.a, IF x.neg THEN -x.b ELSE x.b, FALSE)

\* x * sqrt(3)
Times3(x) == F(3 * x.b, x.a, x.neg)

(***************************************************************************)
(* f32 scalars that carry a factor of pi (the gain, the angles and the     *)
(* outputs): [kind, neg, num, den, pi] is (num/den) * pi^pi with sign bit  *)
(* neg when kind = "fin", an infinity when kind = "inf", NaN when "nan".   *)
(* kind = "none" marks a value that does not exist yet.                    *)
(***************************************************************************)
Scalar(neg, num, den, pi) ==
  [kind |-> "fin", neg |-> neg, num |-> num, den |-> den, pi |-> pi]

Inf(neg) == [kind |-> "inf", neg |-> neg, num |-> 1, den |-> 1, pi |-> 0]

NaN == [kind |-> "nan", neg |-> FALSE, num |-> 0, den |-> 1, pi |-> 0]

NoValue == [kind |-> "none", neg |-> FALSE, num |-> 0, den |-> 1, pi |-> 0]

\* An unsigned integer converted with `as f32`, and the literal 2.0.
AsF32(n) == Scalar(FALSE, n, 1, 0)

\* std::f32::consts::PI
PI == Scalar(FALSE, 1, 1, 1)

IsNull(x) == x.kind = "fin" /\ x.num = 0

\* x * y in IEEE-754: NaN propagates, inf * 0 is NaN, signs xor.
smul(x, y) ==
  IF x.kind = "nan" \/ y.kind = "nan" THEN NaN
  ELSE IF x.kind = "inf" \/ y.kind = "inf"
       THEN IF IsNull(x) \/ IsNull(y) THEN NaN ELSE Inf(x.neg # y.neg)
  ELSE IF x.num = 0 \/ y.num = 0 THEN Scalar(x.neg # y.neg, 0, 1, 0)
  ELSE Scalar(x.neg # y.neg, x.num * y.num, x.den * y.den, x.pi + y.pi)

\* x / y in IEEE-754: 0/0 and inf/inf are NaN, x/0 is an infinity, x/inf a zero.
sdiv(x, y) ==
  IF x.kind = "nan" \/ y.kind = "nan" THEN NaN
  ELSE IF x.kind = "inf"
       THEN IF y.kind = "inf" THEN NaN ELSE Inf(x.neg # y.neg)
  ELSE IF y.kind = "inf" THEN Scalar(x.neg # y.neg, 0, 1, 0)
  ELSE IF y.num = 0
       THEN IF x.num = 0 THEN NaN ELSE Inf(x.neg # y.neg)
  ELSE IF x.num = 0 THEN Scalar(x.neg # y.neg, 0, 1, 0)
  ELSE Scalar(x.neg # y.neg, x.num * y.den, x.den * y.num, x.pi - y.pi)

\* f32::recip
recip(x) == sdiv(AsF32(1), x)

\* Bit-for-bit agreement of two scalars up to the representation of the
\* fraction: same kind, same sign bit, same value.
SameValue(x, y) ==
  /\ x.kind = y.kind
  /\ x.kind \in {"fin", "inf"} => x.neg = y.neg
  /\ x.kind = "fin" =>
       /\ x.num * y.den = y.num * x.den
       /\ x.num # 0 => x.pi = y.pi

(***************************************************************************)
(* Complex32 of the num crate: new, conj, Mul and arg.                     *)
(***************************************************************************)
Complex(re, im) == [re |-> re, im |-> im]

conj(z) == Complex(z.re, fneg(z.im))

cmul(x, y) ==
  Complex(fsub(fmul(x.re, y.re), fmul(x.im, y.im)),
          fadd(fmul(x.re, y.im), fmul(x.im, y.re)))

\* The angle in 0..6 (units of pi/12) of the first-quadrant point (X, Y),
\* X and Y non-negative and not both zero.
FirstQuadrant(Y, X) ==
  IF IsZero(Y) THEN 0
  ELSE IF IsZero(X) THEN 6
  ELSE CHOOSE t \in 1..5 :
         \/ t = 1 /\ Y = fsub(fadd(X, X), Times3(X))
         \/ t = 2 /\ Times3(Y) = X
         \/ t = 3 /\ Y = X
         \/ t = 4 /\ Y = Times3(X)
         \/ t = 5 /\ Y = fadd(fadd(X, X), Times3(X))

\* atan2 with the convention arg(0) = 0: the sign bits of a zero pair ignored.
atan2_zero_is_zero(y, x) ==
  IF IsZero(y) /\ IsZero(x) THEN Scalar(FALSE, 0, 12, 1)
  ELSE LET t == FirstQuadrant(fabs(y), fabs(x))
       IN  Scalar(y.neg, IF x.neg THEN 12 - t ELSE t, 12, 1)

\* atan2 with a domain error (NaN) at the origin.
atan2_domain_error(y, x) ==
  IF IsZero(y) /\ IsZero(x) THEN NaN
  ELSE LET t == FirstQuadrant(fabs(y), fabs(x))
       IN  Scalar(y.neg, IF x.neg THEN 12 - t ELSE t, 12, 1)

\* atan2 that flushes small components (|v| <= 2 units) to zero first.
atan2_flush_small(y, x) ==
  LET flush(v) == IF v.b = 0 /\ v.a \in -2..2 THEN F(0, 0, v.neg) ELSE v
      t == FirstQuadrant(fabs(flush(y)), fabs(flush(x)))
  IN  Scalar(y.neg, IF x.neg THEN 12 - t ELSE t, 12, 1)

\* f32::atan2, the result (k/12)*pi with its sign bit.  As IEEE-754 defines
\* it: the magnitude is reflected to pi - t when the sign bit of x is set
\* (atan2(+-0, -0) = +-pi, atan2(+-0, x < 0) = +-pi) and the result takes the
\* sign bit of y (atan2(-0, x) is -0 or -pi).
atan2(y, x) ==
  LET t == FirstQuadrant(fabs(y), fabs(x))
  IN  Scalar(y.neg, IF x.neg THEN 12 - t ELSE t, 12, 1)

\* Complex::arg
arg(z) == atan2(z.im, z.re)

(***************************************************************************)
(* The sample inputs: 24 directions, 15 degrees apart, the zero components *)
(* of the axis directions with either sign bit, and the zero sample with   *)
(* each of its four sign patterns.                                         *)
(***************************************************************************)
\* The direction k * 15 degrees as <<x, y>>, x and y each <<a, b>> for
\* a + b*sqrt(3): the six directions of the first quadrant, turned by
\* k \div 6 quarter turns.
DirVec(k) ==
  LET r == k % 6
      x == << <<2, 0>>, <<1, 1>>, <<0, 1>>, <<1, 0>>, <<1, 0>>, <<-1, 1>> >>[r + 1]
      y == << <<0, 0>>, <<-1, 1>>, <<1, 0>>, <<1, 0>>, <<0, 1>>, <<1, 1>> >>[r + 1]
      m(v) == <<-v[1], -v[2]>>
  IN  CASE k \div 6 = 0 -> <<x, y>>
        [] k \div 6 = 1 -> <<m(y), x>>
        [] k \div 6 = 2 -> <<m(x), m(y)>>
        [] k \div 6 = 3 -> <<y, m(x)>>

\* The sample of direction k and amplitude c; zx and zy are the sign bits of
\* its zero components, if it has any.
Sample(k, c, zx, zy) ==
  LET v == DirVec(k)
  IN  Complex(F(c * v[1][1], c * v[1][2], zx), F(c * v[2][1], c * v[2][2], zy))

ZeroSample(zx, zy) == Complex(F(0, 0, zx), F(0, 0, zy))

Samples ==
  {Sample(k, 1, zx, zy) : k \in 0..23, zx \in BOOLEAN, zy \in BOOLEAN}
    \cup {ZeroSample(zx, zy) : zx \in BOOLEAN, zy \in BOOLEAN}

IsZeroSample(z) == IsZero(z.re) /\ IsZero(z.im)

(***************************************************************************)
(* FmDemod                                                                 *)
(***************************************************************************)
\* new with the Nyquist limit rounded up instead of truncated.
new_round_up(deviation, sample_rate) ==
  IF deviation <= (sample_rate + 1) \div 2
  THEN [ok |-> TRUE,
        gain |-> recip(sdiv(smul(smul(AsF32(2), PI), AsF32(deviation)),
                            AsF32(sample_rate))),
        prev |-> ZeroSample(FALSE, FALSE)]
  ELSE [ok |-> FALSE, gain |-> NoValue, prev |-> ZeroSample(FALSE, FALSE)]

\* new without the reciprocal: the gain is the angular deviation itself.
new_no_recip(deviation, sample_rate) ==
  IF deviation <= sample_rate \div 2
  THEN [ok |-> TRUE,
        gain |-> sdiv(smul(smul(AsF32(2), PI), AsF32(deviation)),
                      AsF32(sample_rate)),
        prev |-> ZeroSample(FALSE, FALSE)]
  ELSE [ok |-> FALSE, gain |-> NoValue, prev |-> ZeroSample(FALSE, FALSE)]

\* new with the factor 2.0 of the angular deviation left out.
new_missing_two(deviation, sample_rate) ==
  IF deviation <= sample_rate \div 2
  THEN [ok |-> TRUE,
        gain |-> recip(sdiv(smul(PI, AsF32(deviation)), AsF32(sample_rate))),
        prev |-> ZeroSample(FALSE, FALSE)]
  ELSE [ok |-> FALSE, gain |-> NoValue, prev |-> ZeroSample(FALSE, FALSE)]

\* FmDemod::new: the assertion, then the struct literal.  `ok` is FALSE when
\* the assertion panics, and then no instance exists.
new(deviation, sample_rate) ==
  IF deviation <= sample_rate \div 2
  THEN [ok |-> TRUE,
        gain |-> recip(sdiv(smul(smul(AsF32(2), PI), AsF32(deviation)),
                            AsF32(sample_rate))),
        prev |-> ZeroSample(FALSE, FALSE)]
  ELSE [ok |-> FALSE, gain |-> NoValue, prev |-> ZeroSample(FALSE, FALSE)]

\* feed that does not store the sample.
feed_keeps_prev(self_gain, self_prev, sample) ==
  LET next == smul(arg(cmul(sample, conj(self_prev))), self_gain)
  IN  [next |-> next, gain |-> self_gain, prev |-> self_prev]

\* feed that multiplies by the previous sample, not by its conjugate.
feed_no_conj(self_gain, self_prev, sample) ==
  LET next == smul(arg(cmul(sample, self_prev)), self_gain)
  IN  [next |-> next, gain |-> self_gain, prev |-> sample]

\* feed that stores only non-zero samples.
feed_skips_zero(self_gain, self_prev, sample) ==
  LET next == smul(arg(cmul(sample, conj(self_prev))), self_gain)
  IN  [next |-> next, gain |-> self_gain,
       prev |-> IF IsZeroSample(sample) THEN self_prev ELSE sample]

\* FmDemod::feed: the value returned and the fields after the call.
feed(self_gain, self_prev, sample) ==
  LET next == smul(arg(cmul(sample, conj(self_prev))), self_gain)
  IN  [next |-> next, gain |-> self_gain, prev |-> sample]

(***************************************************************************)
(* State.  status, gain and prev are the instance; the rest records what   *)
(* a caller observes: the constructor's arguments, the argument and the    *)
(* result of the latest feed call, and the calls made and values returned. *)
(***************************************************************************)
VARIABLES status, gain, prev, deviation, sample_rate, last, out, nIn, nOut

(***************************************************************************)
(* A second, independent instance (gain2, prev2) built with the same       *)
(* arguments, with the argument and result of its latest feed call; what   *)
(* the two-instance scenarios record (scale, agreed, diverged); and the    *)
(* signal generator of the round-trip test (accum, sym, onVector).         *)
(***************************************************************************)
VARIABLES gain2, prev2, last2, out2, scale, agreed, diverged, accum, sym, onVector

first == <<status, gain, prev, deviation, sample_rate, last, out, nIn, nOut>>
second == <<gain2, prev2, last2, out2, scale, agreed, diverged>>
generator == <<accum, sym, onVector>>
vars == <<first, second, generator>>

Init ==
  /\ status = "none"
  /\ gain = NoValue
  /\ prev = ZeroSample(FALSE, FALSE)
  /\ deviation = 0
  /\ sample_rate = 0
  /\ last = ZeroSample(FALSE, FALSE)
  /\ out = NoValue
  /\ nIn = 0
  /\ nOut = 0
  /\ gain2 = NoValue
  /\ prev2 = ZeroSample(FALSE, FALSE)
  /\ last2 = ZeroSample(FALSE, FALSE)
  /\ out2 = NoValue
  /\ scale = 1
  /\ agreed = FALSE
  /\ diverged = FALSE
  /\ accum = 0
  /\ sym = 0
  /\ onVector = TRUE

\* let mut d = FmDemod::new(dev, rate): the instance, or a panic.
New(dev, rate) ==
  /\ status = "none"
  /\ LET d == new(dev, rate)
     IN  /\ status' = IF d.ok THEN "ok" ELSE "panic"
         /\ gain' = d.gain
         /\ prev' = d.prev
  /\ deviation' = dev
  /\ sample_rate' = rate
  /\ UNCHANGED <<last, out, nIn, nOut, second, generator>>

\* d.feed(sample)
Feed(sample) ==
  /\ status = "ok"
  /\ nIn < MaxFeeds
  /\ \E r \in {feed(gain, prev, sample)} :
         /\ gain' = r.gain
         /\ prev' = r.prev
         /\ out' = r.next
  /\ nOut' = nOut + 1
  /\ last' = sample
  /\ nIn' = nIn + 1
  /\ UNCHANGED <<status, deviation, sample_rate, second, generator>>

Next ==
  \/ \E dev \in 0..MaxRate, rate \in 0..MaxRate : New(dev, rate)
  \/ \E sample \in Samples : Feed(sample)

Spec == Init /\ [][Next]_vars

(***************************************************************************)
(* Two instances with equal arguments, fed together or one at a time.      *)
(***************************************************************************)
\* The samples of the two-instance scenario: the zero sample and six
\* directions, among them two opposite pairs.
PairSamples ==
  {ZeroSample(FALSE, FALSE)}
    \cup {Sample(k, 1, FALSE, FALSE) : k \in {0, 2, 9, 12, 14, 21}}

\* FmDemod::new(dev, rate), twice.
NewPair(dev, rate) ==
  /\ status = "none"
  /\ \E d1 \in {new(dev, rate)}, d2 \in {new(dev, rate)} :
         /\ status' = IF d1.ok /\ d2.ok THEN "ok" ELSE "panic"
         /\ gain' = d1.gain
         /\ prev' = d1.prev
         /\ gain2' = d2.gain
         /\ prev2' = d2.prev
  /\ deviation' = dev
  /\ sample_rate' = rate
  /\ UNCHANGED <<last, out, nIn, nOut, last2, out2, scale, agreed, diverged, generator>>

\* d1.feed(sample) alone: the histories of the two instances part.
FeedFirst(sample) ==
  /\ status = "ok"
  /\ \E r \in {feed(gain, prev, sample)} :
         /\ gain' = r.gain
         /\ prev' = r.prev
         /\ out' = r.next
  /\ last' = sample
  /\ agreed' = FALSE
  /\ diverged' = TRUE
  /\ UNCHANGED <<status, deviation, sample_rate, nIn, nOut,
                 gain2, prev2, last2, out2, scale, generator>>

\* d2.feed(sample) alone.
FeedSecond(sample) ==
  /\ status = "ok"
  /\ \E r \in {feed(gain2, prev2, sample)} :
         /\ gain2' = r.gain
         /\ prev2' = r.prev
         /\ out2' = r.next
  /\ last2' = sample
  /\ agreed' = FALSE
  /\ diverged' = TRUE
  /\ UNCHANGED <<first, scale, generator>>

\* d1.feed(sample) and d2.feed(sample); `agreed` records whether the samples
\* fed to the two instances just before were the same.
FeedBoth(sample) ==
  /\ status = "ok"
  /\ \E r1 \in {feed(gain, prev, sample)}, r2 \in {feed(gain2, prev2, sample)} :
         /\ gain' = r1.gain
         /\ prev' = r1.prev
         /\ out' = r1.next
         /\ gain2' = r2.gain
         /\ prev2' = r2.prev
         /\ out2' = r2.next
  /\ last' = sample
  /\ last2' = sample
  /\ agreed' = (last = last2)
  /\ UNCHANGED <<status, deviation, sample_rate, nIn, nOut, scale, diverged, generator>>

NextPair ==
  \/ \E dev \in {1, MaxRate \div 2}, rate \in {MaxRate - 1, MaxRate} : NewPair(dev, rate)
  \/ \E sample \in PairSamples : FeedFirst(sample)
  \/ \E sample \in PairSamples : FeedSecond(sample)
  \/ \E sample \in PairSamples : FeedBoth(sample)

SpecPair == Init /\ [][NextPair]_vars

(***************************************************************************)
(* Two instances with equal arguments, the second fed every sample of the  *)
(* first rescaled by a positive constant.                                  *)
(***************************************************************************)
\* c * z for a positive integer c: exact, and no sign bit changes.
Scaled(c, z) ==
  Complex(F(c * z.re.a, c * z.re.b, z.re.neg), F(c * z.im.a, c * z.im.b, z.im.neg))

NewScaled(dev, rate, c) ==
  /\ status = "none"
  /\ \E d1 \in {new(dev, rate)}, d2 \in {new(dev, rate)} :
         /\ status' = IF d1.ok /\ d2.ok THEN "ok" ELSE "panic"
         /\ gain' = d1.gain
         /\ prev' = d1.prev
         /\ gain2' = d2.gain
         /\ prev2' = d2.prev
  /\ deviation' = dev
  /\ sample_rate' = rate
  /\ scale' = c
  /\ UNCHANGED <<last, out, nIn, nOut, last2, out2, agreed, diverged, generator>>

\* d1.feed(sample) and d2.feed(scale * sample)
FeedScaled(sample) ==
  /\ status = "ok"
  /\ nIn < MaxFeeds
  /\ \E r1 \in {feed(gain, prev, sample)},
        r2 \in {feed(gain2, prev2, Scaled(scale, sample))} :
         /\ gain' = r1.gain
         /\ prev' = r1.prev
         /\ out' = r1.next
         /\ gain2' = r2.gain
         /\ prev2' = r2.prev
         /\ out2' = r2.next
  /\ last' = sample
  /\ last2' = Scaled(scale, sample)
  /\ nIn' = nIn + 1
  /\ nOut' = nOut + 1
  /\ UNCHANGED <<status, deviation, sample_rate, scale, agreed, diverged, generator>>

NextScaled ==
  \/ \E dev \in {0, 1, MaxRate \div 2}, rate \in {MaxRate}, c \in 1..MaxScale :
        NewScaled(dev, rate, c)
  \/ \E sample \in Samples : FeedScaled(sample)

SpecScaled == Init /\ [][NextScaled]_vars

(***************************************************************************)
(* The round-trip test test_fm_demod, with any deviation and sample rate   *)
(* whose angular deviation is a multiple of 30 degrees and any sequence of *)
(* symbols -1 and 1, one per sample.                                       *)
(***************************************************************************)
\* let data = [-1, 1, 1, -1, 1, -1]
Data == <<-1, 1, 1, -1, 1, -1>>

\* for _ in 0..2: the samples per symbol
SamplesPerSymbol == 2

\* The symbol the test feeds as its t-th sample.
DataSymbol(t) == Data[(t - 1) \div SamplesPerSymbol + 1]

\* The values the test asserts for its second and later feed calls.
Expected == <<-1, 1, 1, 1, 1, -1, -1, 1, 1, -1, -1>>

\* The arguments of the test, and the pairs up to MaxRate with
\* deviation <= sample_rate / 2 whose angular deviation 2 pi dev / rate is a
\* multiple of pi / 6.
TestParams ==
  {<<4000, 48000>>}
    \cup {p \in (1..MaxRate) \X (1..MaxRate) : 2 * p[1] <= p[2] /\ (12 * p[1]) % p[2] = 0}

\* angdev = 2.0 * PI * dev / samprate, in units of pi / 6.
angdev(dev, rate) == (12 * dev) \div rate

\* Complex32::new(accum.cos(), accum.sin()), accum in units of pi / 6.  zx and
\* zy are the sign bits of a cosine or sine that is zero in exact arithmetic.
Phasor(acc, zx, zy) == Sample(2 * (acc % 12), 1, zx, zy)

\* let mut d = FmDemod::new(dev, samprate)
TestNew(dev, rate) ==
  /\ status = "none"
  /\ \E d \in {new(dev, rate)} :
         /\ status' = IF d.ok THEN "ok" ELSE "panic"
         /\ gain' = d.gain
         /\ prev' = d.prev
  /\ deviation' = dev
  /\ sample_rate' = rate
  /\ UNCHANGED <<last, out, nIn, nOut, second, generator>>

\* accum += angdev * sym; d.feed(Complex32::new(accum.cos(), accum.sin()))
TestFeed(x, zx, zy) ==
  /\ status = "ok"
  /\ nIn < MaxLen
  /\ \E acc \in {accum + angdev(deviation, sample_rate) * x} :
       \E sample \in {Phasor(acc, zx, zy)} :
         \E r \in {feed(gain, prev, sample)} :
           /\ accum' = acc
           /\ last' = sample
           /\ gain' = r.gain
           /\ prev' = r.prev
           /\ out' = r.next
  /\ sym' = x
  /\ onVector' = (onVector /\ nIn < Len(Data) * SamplesPerSymbol /\ x = DataSymbol(nIn + 1))
  /\ nIn' = nIn + 1
  /\ nOut' = nOut + 1
  /\ UNCHANGED <<status, deviation, sample_rate, second>>

NextTest ==
  \/ \E p \in TestParams : TestNew(p[1], p[2])
  \/ \E x \in {-1, 1}, zx \in BOOLEAN, zy \in BOOLEAN : TestFeed(x, zx, zy)

SpecTest == Init /\ [][NextTest]_vars

(***************************************************************************)
(* Vocabulary of the properties.                                           *)
(***************************************************************************)
\* This step is a feed call.  In the state before it, `last` is the sample of
\* the preceding feed call, or (0, 0) if there was none.
FeedStep == status = "ok" /\ nIn' = nIn + 1

\* The direction of each non-zero sample, in units of 15 degrees.
Direction ==
  [s \in {z \in Samples : ~IsZeroSample(z)} |->
     CHOOSE k \in 0..23 : \E zx \in BOOLEAN, zy \in BOOLEAN : s = Sample(k, 1, zx, zy)]

DirOf(s) == Direction[s]

\* The angle theta, a multiple of pi/12, is congruent to k * pi/12 modulo 2 pi.
Congruent(theta, k) ==
  /\ theta.kind = "fin"
  /\ theta.den = 12
  /\ ((IF theta.neg THEN -theta.num ELSE theta.num) - k) % 24 = 0

IsMinusPi(theta) == theta.kind = "fin" /\ theta.neg /\ theta.num = theta.den

IsFinite(x) == x.kind = "fin"

\* |x| <= n/d for a finite scalar x free of pi, n >= 0 and d > 0.
AbsAtMost(x, n, d) ==
  /\ x.kind = "fin"
  /\ x.num # 0 => x.pi = 0
  /\ x.num * d <= n * x.den

(***************************************************************************)
(* C1.  Construction panics exactly when 2 * deviation > sample_rate and   *)
(* yields an instance exactly when 2 * deviation <= sample_rate, for odd   *)
(* sample rates too, where the code divides with truncation.               *)
(***************************************************************************)
C1_Nyquist ==
  status # "none" =>
    /\ status = "ok" <=> 2 * deviation <= sample_rate
    /\ status = "panic" <=> 2 * deviation > sample_rate

\* An odd sample rate and the smallest deviation above its half: a panic.
C1_Witness ==
  /\ status = "panic"
  /\ sample_rate % 2 = 1
  /\ 2 * deviation = sample_rate + 1

C3_Frame ==
  [][/\ (status = "none" /\ status' = "ok") => prev' = ZeroSample(FALSE, FALSE)
     /\ status = "ok" => (status' = "ok" /\ gain' = gain)
     /\ FeedStep => prev' = last'
     /\ (status = "ok" /\ ~FeedStep) => prev' = prev]_vars

\* Two feed calls made, the second with a sample other than the first.
C3_Witness ==
  /\ status = "ok" /\ nIn >= 2
  /\ prev = last /\ ~IsZeroSample(prev)
  /\ SameValue(gain, Scalar(FALSE, sample_rate, 2 * deviation, -1))
  /\ out.num # 0

C5_Original ==
  (status = "ok" /\ nIn = 1 /\ ~IsZeroSample(last)) =>
    /\ IsFinite(out) /\ out.num = 0
    /\ prev = last

(***************************************************************************)
(* C5, amended.  The first feed call, given a non-zero sample, leaves prev *)
(* equal to the sample and returns gain * atan2 of a signed-zero product:  *)
(* with a positive deviation that is pi * gain = sample_rate /             *)
(* (2 * deviation) when both components of the sample have their sign bit  *)
(* set and a zero otherwise, so it is finite; with deviation 0, which the  *)
(* constructor accepts, the gain is infinite or NaN and so is the value.   *)
(***************************************************************************)
C5_FirstCall ==
  (status = "ok" /\ nIn = 1 /\ ~IsZeroSample(last)) =>
    /\ prev = last
    /\ nOut = 1
    /\ deviation > 0 =>
         /\ IsFinite(out)
         /\ IF last.re.neg /\ last.im.neg
            THEN SameValue(out, Scalar(FALSE, sample_rate, 2 * deviation, 0))
            ELSE out.num = 0
    /\ deviation = 0 => ~IsFinite(out)

\* The first call was given a sample of the third quadrant: pi * gain returned.
C5_Witness ==
  /\ status = "ok" /\ nIn = 1 /\ deviation > 0
  /\ last = Sample(15, 1, FALSE, FALSE)
  /\ prev = last
  /\ SameValue(out, Scalar(FALSE, sample_rate, 2 * deviation, 0))

(***************************************************************************)
(* C6.  With 0 < deviation <= sample_rate / 2 construction succeeds and    *)
(* the gain is sample_rate / (2 pi deviation), positive and finite.        *)
(***************************************************************************)
C6_Gain ==
  (status # "none" /\ deviation > 0 /\ 2 * deviation <= sample_rate) =>
    /\ status = "ok"
    /\ IsFinite(gain) /\ ~gain.neg /\ gain.num > 0 /\ gain.den > 0
    /\ SameValue(gain, Scalar(FALSE, sample_rate, 2 * deviation, -1))

\* An instance at the Nyquist limit of an even rate: gain = 1 / pi.
C6_Witness ==
  /\ status = "ok" /\ deviation = 2 /\ sample_rate = 4
  /\ SameValue(gain, Scalar(FALSE, 1, 1, -1))

(***************************************************************************)
(* C7.  Two instances built with the same arguments, whatever each was fed *)
(* before (nothing, the same samples, or different ones): if the latest    *)
(* sample fed to each was the same, feeding both the same next sample      *)
(* returns the same value from both and leaves them with the same          *)
(* previous sample.                                                        *)
(***************************************************************************)
C7_HistoryIndependent ==
  (status = "ok" /\ agreed) =>
    /\ SameValue(out, out2)
    /\ prev = prev2
    /\ gain = gain2

\* The instances were fed apart, then the same sample twice; a non-zero output.
C7_Witness ==
  /\ status = "ok" /\ agreed /\ diverged
  /\ IsFinite(out) /\ out.num # 0
  /\ SameValue(out, out2)

C9_Total ==
  status = "ok" =>
    /\ nOut = nIn
    /\ nIn > 0 => out.kind \in {"fin", "inf", "nan"}
    /\ (nIn > 0 /\ IsFinite(gain)) => IsFinite(out)
    /\ nIn = 0 => out = NoValue

\* A zero sample fed after a non-zero one, on an instance of finite gain.
C9_Witness ==
  /\ status = "ok" /\ nIn >= 2 /\ nOut = nIn
  /\ IsZeroSample(last) /\ last.re.neg
  /\ IsFinite(gain) /\ IsFinite(out) /\ out.num # 0

====
